---- MODULE Spec2Model ----
(***************************************************************************)
(* Rag_Norma text pipeline: app/processing/normalizer.py (clean) and       *)
(* app/processing/segmenter.py (chunk_text, chunk_text_with_spans,         *)
(* _soft_cut).                                                             *)
(*                                                                         *)
(* A text is a sequence of one-character strings.  A call either returns   *)
(* a value, [status |-> "ok", val |-> v], or ends in a Python exception,   *)
(* [status |-> "raise", exc |-> <exception class>, line |-> <source        *)
(* line>].  The state machine is a caller that holds a document text and   *)
(* invokes the public functions on it; a successful clean replaces the     *)
(* held text by the normalized text, as the pipeline does.                 *)
(***************************************************************************)
EXTENDS Integers, Sequences, FiniteSets, TLC

VARIABLES text, call, arg, ccfg, scfg, ret

vars == <<text, call, arg, ccfg, scfg, ret>>

(***************************************************************************)
(* Characters.  Characters that have no ASCII spelling are named by their  *)
(* code point.                                                             *)
(***************************************************************************)
NL == "\n"
TAB == "\t"
CR == "\r"
SHY == "u00ad"
NBSP == "u00a0"
ENDASH == "u2013"
EMDASH == "u2014"

\* str.isspace() / regex \s over the modelled characters
WS == {" ", TAB, NL, CR, NBSP}

\* Python results
Ok(v) == [status |-> "ok", val |-> v]

Raise(e, l) == [status |-> "raise", exc |-> e, line |-> l]

None == [none |-> TRUE]

(***************************************************************************)
(* Bounds of the model: input texts are concatenations of at most          *)
(* MaxPieces pieces.  The pieces are single characters of every class the  *)
(* stages distinguish, and a few longer fragments: a paragraph break, a    *)
(* sentence, a word, a standard designation, and a hyphenated line wrap    *)
(* followed by a page-number line.                                         *)
(***************************************************************************)
MaxPieces == 3

Pieces ==
    { <<"a">>, <<" ">>, <<NL>>, <<NL, NL>>, <<".">>, <<"a", ".", " ">>,
      <<"a", "a", "a">>, <<"-">>, <<ENDASH>>, <<"5">>, <<TAB>>, <<CR>>,
      <<SHY>>, <<"I", "S", "O">>, <<"-", NL, " ", "5", NL>> }

RECURSIVE Concats(_)
Concats(n) ==
    IF n = 0 THEN {<<>>}
    ELSE LET prev == Concats(n - 1)
         IN  prev \cup {t \o p : t \in prev, p \in Pieces}

Texts == Concats(MaxPieces)

(***************************************************************************)
(* String helpers (Python str methods)                                     *)
(***************************************************************************)
RECURSIVE lstrip(_)
lstrip(s) ==
    IF s = <<>> THEN s
    ELSE IF Head(s) \in WS THEN lstrip(Tail(s)) ELSE s

RECURSIVE rstrip(_)
rstrip(s) ==
    IF s = <<>> THEN s
    ELSE IF s[Len(s)] \in WS THEN rstrip(SubSeq(s, 1, Len(s) - 1)) ELSE s

strip(s) == rstrip(lstrip(s))

\* the parts p of a list of strings with strip(p) non-empty, stripped
RECURSIVE StripNonEmpty(_)
StripNonEmpty(parts) ==
    IF parts = <<>> THEN <<>>
    ELSE LET p == strip(Head(parts))
         IN  IF p = <<>> THEN StripNonEmpty(Tail(parts))
             ELSE <<p>> \o StripNonEmpty(Tail(parts))

(***************************************************************************)
(* segmenter.py                                                            *)
(***************************************************************************)
\* first index at or after i that does not hold a newline
RECURSIVE NewlineRunEnd(_, _)
NewlineRunEnd(s, i) ==
    IF i <= Len(s) /\ s[i] = NL THEN NewlineRunEnd(s, i + 1) ELSE i

\* PARA_SPLIT_RE.split(text): split on every maximal run of two or more "\n"
RECURSIVE PARA_SPLIT(_, _, _)
PARA_SPLIT(s, i, cur) ==
    IF i > Len(s) THEN <<cur>>
    ELSE IF s[i] = NL /\ i + 1 <= Len(s) /\ s[i + 1] = NL
         THEN <<cur>> \o PARA_SPLIT(s, NewlineRunEnd(s, i), <<>>)
         ELSE PARA_SPLIT(s, i + 1, Append(cur, s[i]))

_split_paragraphs(t) == StripNonEmpty(PARA_SPLIT(t, 1, <<>>))

\* SENT_SPLIT_RE = (?<=[\.\?\!\:;...])\s+ : the characters a sentence may end with
SentEnd == {".", "?", "!", ":", ";", "u2026"}

\* first index at or after i that does not hold whitespace
RECURSIVE SpaceRunEnd(_, _)
SpaceRunEnd(s, i) ==
    IF i <= Len(s) /\ s[i] \in WS THEN SpaceRunEnd(s, i + 1) ELSE i

\* SENT_SPLIT_RE.split(par): split on every whitespace run that follows a
\* sentence-ending character
RECURSIVE SENT_SPLIT(_, _, _)
SENT_SPLIT(s, i, cur) ==
    IF i > Len(s) THEN <<cur>>
    ELSE IF s[i] \in WS /\ i > 1 /\ s[i - 1] \in SentEnd
         THEN <<cur>> \o SENT_SPLIT(s, SpaceRunEnd(s, i), <<>>)
         ELSE SENT_SPLIT(s, i + 1, Append(cur, s[i]))

_split_sentences(par) == StripNonEmpty(SENT_SPLIT(par, 1, <<>>))

\* SegmentConfig(): the dataclass defaults
SegmentConfig ==
    [target_len |-> 900, max_len |-> 1200, min_len |-> 250, overlap |-> 120,
     prefer_headings |-> TRUE, min_par_len |-> 20, min_sent_len |-> 20]

\* the configurations the caller passes: the defaults, and the same shape
\* scaled down so that the modelled texts exceed max_len
SegConfigs ==
    { SegmentConfig,
      [SegmentConfig EXCEPT !.target_len = 3, !.max_len = 4, !.min_len = 2,
                            !.overlap = 1],
      [SegmentConfig EXCEPT !.target_len = 3, !.max_len = 4, !.min_len = 4,
                            !.overlap = 1] }

(* _soft_cut, lines 112-152.  pos is never advanced (line 125 is its only   *)
(* assignment), so end = len(s) for every sentence.  The first sentence     *)
(* that is not skipped by line 130 reaches line 132, which reads the        *)
(* unbound name ens; when every sentence is skipped, best stays -1 and      *)
(* line 147 reads the unbound name rigth.                                   *)
_soft_cut(buffer, cfg) ==
    LET n == Len(buffer)
        sents == _split_sentences(buffer)
        pos == 0
        reaches132 == \E k \in 1..Len(sents) :
                          ~(pos + Len(sents[k]) < cfg.min_len)
    IN  IF n <= cfg.max_len THEN Ok(-1)
        ELSE IF reaches132 THEN Raise("NameError", 132)
        ELSE Raise("NameError", 147)

(* chunk_text_with_spans, lines 168-282.  The loop of line 173 binds par    *)
(* and reads p, a local of the function (bound only by the loop of line     *)
(* 189) that has no value yet: with at least one paragraph line 174 raises  *)
(* UnboundLocalError.  With no paragraph neither loop body runs; the        *)
(* return of line 282 is inside the loop of line 189, so the function ends  *)
(* without a return statement and yields None.                              *)
chunk_text_with_spans(t, cfg) ==
    LET paragraphs == _split_paragraphs(t)
    IN  IF paragraphs # <<>> THEN Raise("UnboundLocalError", 174)
        ELSE Ok(None)

\* chunk_text, lines 160-162: unpacks the pair chunk_text_with_spans returns
chunk_text(t, cfg) ==
    LET r == chunk_text_with_spans(t, cfg)
    IN  IF r.status = "raise" THEN r
        ELSE IF r.val = None THEN Raise("TypeError", 161)
        ELSE Ok(r.val.chunks)

(***************************************************************************)
(* normalizer.py: character classes of the compiled patterns.  Cyrillic    *)
(* letters are named cy_<latin transliteration>, capitals CY_<...>.        *)
(***************************************************************************)
LatinLower ==
    <<"a", "b", "c", "d", "e", "f", "g", "h", "i", "j", "k", "l", "m", "n",
      "o", "p", "q", "r", "s", "t", "u", "v", "w", "x", "y", "z">>

LatinUpper ==
    <<"A", "B", "C", "D", "E", "F", "G", "H", "I", "J", "K", "L", "M", "N",
      "O", "P", "Q", "R", "S", "T", "U", "V", "W", "X", "Y", "Z">>

CyrLower ==
    <<"cy_a", "cy_b", "cy_v", "cy_g", "cy_d", "cy_e", "cy_zh", "cy_z", "cy_i", "cy_k",
      "cy_l", "cy_m", "cy_n", "cy_o", "cy_p", "cy_r", "cy_s", "cy_t", "cy_u",
      "cy_ts", "cy_ch", "cy_y", "cy_soft", "cy_ee", "cy_ya">>

CyrUpper ==
    <<"CY_A", "CY_B", "CY_V", "CY_G", "CY_D", "CY_E", "CY_ZH", "CY_Z", "CY_I", "CY_K",
      "CY_L", "CY_M", "CY_N", "CY_O", "CY_P", "CY_R", "CY_S", "CY_T", "CY_U",
      "CY_TS", "CY_CH", "CY_Y", "CY_SOFT", "CY_EE", "CY_YA">>

Range(f) == {f[k] : k \in DOMAIN f}

Latin == Range(LatinLower) \cup Range(LatinUpper)

Cyrillic == Range(CyrLower) \cup Range(CyrUpper)

Digits == {"0", "1", "2", "3", "4", "5", "6", "7", "8", "9"}

\* \w
WordChars == Latin \cup Cyrillic \cup Digits \cup {"_"}

\* _HYPHENS, line 76 (u2010..u2015 and the ASCII hyphen)
HYPHENS == {"-", "u2010", "u2011", "u2012", ENDASH, EMDASH, "u2015"}

\* RE_ANY_DASH, line 85
ANY_DASH == HYPHENS \ {"-"}

\* str.splitlines() boundaries that survive _strip_control_chars
LineBreaks == {NL, "u2028", "u2029"}

\* unicodedata.category(ch)[0] == "C" over the modelled characters
ControlChars == {CR, TAB, NL, SHY, "u0000"}

\* every character of the model
Chars ==
    WordChars \cup HYPHENS \cup WS \cup LineBreaks \cup ControlChars \cup SentEnd
        \cup {",", "/", ")", "u2116", "*", "u2022", "u00b7"}

\* the characters "." of a pattern matches
Dot == Chars \ {NL}

\* re.IGNORECASE: the lower-case form of a character
Fold(c) ==
    IF \E k \in DOMAIN LatinUpper : LatinUpper[k] = c
    THEN LatinLower[CHOOSE k \in DOMAIN LatinUpper : LatinUpper[k] = c]
    ELSE IF \E k \in DOMAIN CyrUpper : CyrUpper[k] = c
    THEN CyrLower[CHOOSE k \in DOMAIN CyrUpper : CyrUpper[k] = c]
    ELSE c

(***************************************************************************)
(* Pattern matching by sets of positions: P holds the positions (index of  *)
(* the next character to read) a partial match may have reached.           *)
(***************************************************************************)
\* a literal word w, given in lower case, matched ignoring case
Lit(s, P, w) ==
    { p + Len(w) : p \in { q \in P : /\ q + Len(w) - 1 <= Len(s)
                                     /\ \A k \in 1..Len(w) :
                                            Fold(s[q + k - 1]) = w[k] } }

\* a literal word w matched exactly
LitCS(s, P, w) ==
    { p + Len(w) : p \in { q \in P : /\ q + Len(w) - 1 <= Len(s)
                                     /\ \A k \in 1..Len(w) :
                                            s[q + k - 1] = w[k] } }

\* C{lo,hi}
Rep(s, P, C, lo, hi) ==
    { q \in 1..(Len(s) + 1) :
        \E p \in P : /\ q - p >= lo
                     /\ q - p <= hi
                     /\ \A k \in p..(q - 1) : s[k] \in C }

\* C*
Star(s, P, C) == Rep(s, P, C, 0, Len(s))

\* C+
Plus(s, P, C) == Rep(s, P, C, 1, Len(s))

\* C?
Opt(s, P, C) == Rep(s, P, C, 0, 1)

\* $ without re.MULTILINE: the end, or just before a final newline
AtEnd(s, P) ==
    \/ Len(s) + 1 \in P
    \/ Len(s) >= 1 /\ Len(s) \in P /\ s[Len(s)] = NL

\* every position of s: where re.search may start
Anywhere(s) == 1..(Len(s) + 1)

W_gost == <<"cy_g", "cy_o", "cy_s", "cy_t">>
W_snip == <<"cy_s", "cy_n", "cy_i", "cy_p">>
W_sp == <<"cy_s", "cy_p">>
W_pue == <<"cy_p", "cy_u", "cy_ee">>
W_sto == <<"cy_s", "cy_t", "cy_o">>
W_izdanie == <<"cy_i", "cy_z", "cy_d", "cy_a", "cy_n", "cy_i", "cy_e">>
W_izm == <<"cy_i", "cy_z", "cy_m", ".">>
W_utd == <<"u", "t", "d">>
W_iso == <<"i", "s", "o">>
W_str == <<"cy_s", "cy_t", "cy_r">>
W_stranica == <<"cy_s", "cy_t", "cy_r", "cy_a", "cy_n", "cy_i", "cy_ts", "cy_a">>
W_page == <<"p", "a", "g", "e">>
W_prodolzhenie ==
    <<"cy_p", "cy_r", "cy_o", "cy_d", "cy_o", "cy_l", "cy_zh", "cy_e", "cy_n",
      "cy_i", "cy_e">>
W_okonchanie ==
    <<"cy_o", "cy_k", "cy_o", "cy_n", "cy_ch", "cy_a", "cy_n", "cy_i", "cy_e">>
W_tablicy == <<"cy_t", "cy_a", "cy_b", "cy_l", "cy_i", "cy_ts", "cy_y">>
W_tablica == <<"cy_t", "cy_a", "cy_b", "cy_l", "cy_i", "cy_ts", "cy_a">>
W_risunok == <<"cy_r", "cy_i", "cy_s", "cy_u", "cy_n", "cy_o", "cy_k">>
W_g == <<"cy_g", ".">>

\* RE_PAGE_NUM_PURE.match(s), line 88
RE_PAGE_NUM_PURE(s) ==
    LET dash == {ENDASH, EMDASH, "-"}
        p1 == Star(s, Opt(s, Star(s, {1}, WS), dash), WS)
        p2 == Star(s, Opt(s, Star(s, Rep(s, p1, Digits, 1, 4), WS), dash), WS)
    IN  AtEnd(s, p2)

\* RE_PAGE_WORD.match(s), line 89
RE_PAGE_WORD(s) ==
    LET p0 == Star(s, {1}, WS)
        p1 == Opt(s, Lit(s, p0, W_str), {"."})
                  \cup Lit(s, p0, W_stranica) \cup Lit(s, p0, W_page)
        p2 == Star(s, Opt(s, Star(s, p1, WS), {"u2116", ":"}), WS)
    IN  AtEnd(s, Star(s, Rep(s, p2, Digits, 1, 4), WS))

\* RE_DATE_LINE.match(s), lines 90-92 (no IGNORECASE; [А-Яа-я] as modelled)
RE_DATE_LINE(s) ==
    LET p0 == Star(s, {1}, WS)
        sep == {".", "/"}
        d1 == Rep(s, Rep(s, Rep(s, p0, Digits, 1, 2), sep, 1, 1), Digits, 1, 2)
        num == Rep(s, Rep(s, d1, sep, 1, 1), Digits, 2, 4)
        w1 == Rep(s, Plus(s, Plus(s, p0, Latin \cup Cyrillic), WS), Digits, 4, 4)
        word == LitCS(s, Star(s, w1, WS), W_g)
    IN  AtEnd(s, Star(s, num \cup word, WS))

\* RE_HEADER_HINT.search(s), lines 95-97
RE_HEADER_HINT(s) ==
    LET p0 == Anywhere(s)
        std == Lit(s, p0, W_gost) \cup Lit(s, p0, W_snip) \cup Lit(s, p0, W_sp)
                   \cup Lit(s, p0, W_pue) \cup Lit(s, p0, W_sto)
        cls == Latin \cup Cyrillic \cup Digits \cup {"-", ".", ":", "/"}
    IN  \/ Plus(s, Plus(s, std, WS), cls) # {}
        \/ Lit(s, p0, W_izdanie) # {}
        \/ Plus(s, Star(s, Lit(s, p0, W_izm), WS), Digits) # {}
        \/ Lit(s, p0, W_utd) # {}
        \/ Lit(s, p0, W_iso) # {}

\* the tail \s+\d+([.,].*)?$ shared by the table and figure patterns
NumberedTail(s, P) ==
    LET n == Plus(s, Plus(s, P, WS), Digits)
    IN  AtEnd(s, n \cup Star(s, Rep(s, n, {".", ","}, 1, 1), Dot))

\* RE_TABLE_CONT.match(s), lines 100-102
RE_TABLE_CONT(s) ==
    LET p0 == Star(s, {1}, WS)
        p1 == Lit(s, p0, W_prodolzhenie) \cup Lit(s, p0, W_okonchanie)
    IN  NumberedTail(s, Lit(s, Plus(s, p1, WS), W_tablicy))

\* RE_TABLE_HEAD.match(s), line 103
RE_TABLE_HEAD(s) == NumberedTail(s, Lit(s, Star(s, {1}, WS), W_tablica))

\* RE_FIG_HEAD.match(s), line 104
RE_FIG_HEAD(s) == NumberedTail(s, Lit(s, Star(s, {1}, WS), W_risunok))

(***************************************************************************)
(* normalizer.py: the stages of clean                                      *)
(***************************************************************************)
\* CleanConfig(): the dataclass defaults, lines 28-67.  The bullet field is
\* declared as bullet_sumbol (line 49).
CleanConfig ==
    [remove_page_numbers |-> TRUE, remove_headers_footers |-> TRUE,
     header_min_repeats |-> 3, header_max_len |-> 120,
     extra_header_footer_regexes |-> <<>>, normalize_bullets |-> TRUE,
     bullet_sumbol |-> "-", max_consecutive_newlines |-> 2,
     collapse_spaces |-> TRUE, fix_hyphenation |-> TRUE,
     normalize_dashes |-> TRUE, soften_inline_newlines |-> FALSE,
     inline_newline_window |-> 60]

\* unicodedata.normalize("NFKC", ch) of one modelled character
NFKC(ch) ==
    CASE ch = NBSP -> <<" ">>
      [] ch = "u2026" -> <<".", ".", ".">>
      [] ch = "u2011" -> <<"u2010">>
      [] ch = "u2116" -> <<"N", "o">>
      [] OTHER -> <<ch>>

\* _normalize_unicode, lines 116-119
RECURSIVE _normalize_unicode(_)
_normalize_unicode(t) ==
    IF t = <<>> THEN <<>>
    ELSE LET rest == _normalize_unicode(Tail(t))
             n == NFKC(Head(t))
         IN  IF n = <<SHY>> THEN rest ELSE n \o rest

\* _strip_control_chars, lines 112-113
_strip_control_chars(t) ==
    SelectSeq(t, LAMBDA ch : ch \in {NL, TAB} \/ ch \notin ControlChars)

\* RE_HYPHEN_NEWLINE.sub(r"\1\2", text), line 126: one left-to-right pass
\* over the non-overlapping matches of (\w)[hyphens]\n(\w)
RECURSIVE HyphenPass(_, _)
HyphenPass(t, i) ==
    IF i > Len(t) THEN <<>>
    ELSE IF /\ i + 3 <= Len(t)
            /\ t[i] \in WordChars
            /\ t[i + 1] \in HYPHENS
            /\ t[i + 2] = NL
            /\ t[i + 3] \in WordChars
         THEN <<t[i], t[i + 3]>> \o HyphenPass(t, i + 4)
         ELSE <<t[i]>> \o HyphenPass(t, i + 1)

\* the loop of lines 125-129 with `passes` iterations left
RECURSIVE HyphenLoop(_, _)
HyphenLoop(t, passes) ==
    IF passes = 0 THEN t
    ELSE LET new_text == HyphenPass(t, 1)
         IN  IF new_text = t THEN t ELSE HyphenLoop(new_text, passes - 1)

\* range(3), line 125
HyphenPasses == 3

\* _fix_hyphenation, lines 122-130
_fix_hyphenation(t) == HyphenLoop(t, HyphenPasses)

\* first index at or after i whose character is not in C
RECURSIVE RunEnd(_, _, _)
RunEnd(t, i, C) ==
    IF i <= Len(t) /\ t[i] \in C THEN RunEnd(t, i + 1, C) ELSE i

\* re.sub of C{lo,} by repl: every maximal run of characters of C that is at
\* least lo long becomes repl
RECURSIVE SubRuns(_, _, _, _, _)
SubRuns(t, i, C, lo, repl) ==
    IF i > Len(t) THEN <<>>
    ELSE IF t[i] \in C
         THEN LET e == RunEnd(t, i, C)
              IN  (IF e - i >= lo THEN repl ELSE SubSeq(t, i, e - 1))
                      \o SubRuns(t, e, C, lo, repl)
         ELSE <<t[i]>> \o SubRuns(t, i + 1, C, lo, repl)

\* _normalize_dashes, lines 140-141
_normalize_dashes(t) == SubRuns(t, 1, ANY_DASH, 1, <<"-">>)

\* str.split(sep) on a one-character separator
RECURSIVE SplitOn(_, _, _, _)
SplitOn(t, i, cur, seps) ==
    IF i > Len(t) THEN <<cur>>
    ELSE IF t[i] \in seps THEN <<cur>> \o SplitOn(t, i + 1, <<>>, seps)
         ELSE SplitOn(t, i + 1, Append(cur, t[i]), seps)

\* str.splitlines(): no line for an empty text, none after a final break
splitlines(t) ==
    IF t = <<>> THEN <<>>
    ELSE LET parts == SplitOn(t, 1, <<>>, LineBreaks)
         IN  IF t[Len(t)] \in LineBreaks
             THEN SubSeq(parts, 1, Len(parts) - 1)
             ELSE parts

\* "\n".join(lines)
RECURSIVE JoinLines(_)
JoinLines(lines) ==
    IF lines = <<>> THEN <<>>
    ELSE IF Len(lines) = 1 THEN lines[1]
    ELSE lines[1] \o <<NL>> \o JoinLines(Tail(lines))

\* a repeat of n copies of "\n"
RECURSIVE Newlines(_)
Newlines(n) == IF n <= 0 THEN <<>> ELSE <<NL>> \o Newlines(n - 1)

\* _collapse_spaces_and_newlines, lines 163-180
_collapse_spaces_and_newlines(t, collapse_spaces, max_consecutive_newlines) ==
    LET t1 == IF collapse_spaces
              THEN SubRuns([k \in DOMAIN t |-> IF t[k] = TAB THEN " " ELSE t[k]],
                           1, {" "}, 2, <<" ">>)
              ELSE t
        t2 == IF max_consecutive_newlines >= 1
              THEN SubRuns(t1, 1, {NL}, max_consecutive_newlines + 1,
                           Newlines(max_consecutive_newlines))
              ELSE t1
    IN  strip(t2)

(* Caller-supplied patterns (extra_header_footer_regexes).  The modelled    *)
(* patterns are "[", which re.compile rejects with re.error (unterminated   *)
(* character set), and one-character literals.                              *)
InvalidPatterns == {"["}

\* the patterns line 193 compiles: re.error is caught (lines 194-197)
RECURSIVE extra_compiled(_)
extra_compiled(pats) ==
    IF pats = <<>> THEN <<>>
    ELSE IF Head(pats) \in InvalidPatterns THEN extra_compiled(Tail(pats))
    ELSE <<Head(pats)>> \o extra_compiled(Tail(pats))

\* p.search(s) for a compiled one-character literal, re.IGNORECASE
PatSearch(p, s) == \E k \in 1..Len(s) : Fold(s[k]) = Fold(p)

\* freq.get(s, 0) after the loop of lines 200-206
freq(lines, cfg, s) ==
    IF /\ s # <<>>
       /\ Len(s) <= cfg.header_max_len
       /\ (RE_HEADER_HINT(s) \/ RE_PAGE_WORD(s) \/ RE_PAGE_NUM_PURE(s))
    THEN Cardinality({k \in 1..Len(lines) : strip(lines[k]) = s})
    ELSE 0

\* the loop of lines 209-237 if the date rule were part of the page-number
\* toggle and the table-continuation rule part of the header toggle
KeepsLineWhenRulesToggled(lines, cfg, ln) ==
    LET s == strip(ln)
        is_headerish == RE_HEADER_HINT(s) \/ RE_TABLE_HEAD(s) \/ RE_FIG_HEAD(s)
        repeated_enough == freq(lines, cfg, s) >= cfg.header_min_repeats
        compiled == extra_compiled(cfg.extra_header_footer_regexes)
    IN  IF s = <<>> THEN TRUE
        ELSE IF cfg.remove_page_numbers
                /\ (RE_PAGE_NUM_PURE(s) \/ RE_PAGE_WORD(s) \/ RE_DATE_LINE(s))
             THEN FALSE
        ELSE IF cfg.remove_headers_footers /\ RE_TABLE_CONT(s) THEN FALSE
        ELSE IF /\ cfg.remove_headers_footers
                /\ is_headerish
                /\ (repeated_enough \/ Len(s) <= cfg.header_max_len) THEN FALSE
        ELSE IF \E k \in 1..Len(compiled) : PatSearch(compiled[k], s) THEN FALSE
        ELSE TRUE

\* whether the loop of lines 209-237 keeps the line ln
KeepsLine(lines, cfg, ln) ==
    LET s == strip(ln)
        is_headerish == RE_HEADER_HINT(s) \/ RE_TABLE_HEAD(s) \/ RE_FIG_HEAD(s)
        repeated_enough == freq(lines, cfg, s) >= cfg.header_min_repeats
        compiled == extra_compiled(cfg.extra_header_footer_regexes)
    IN  IF s = <<>> THEN TRUE
        ELSE IF cfg.remove_page_numbers
                /\ (RE_PAGE_NUM_PURE(s) \/ RE_PAGE_WORD(s)) THEN FALSE
        ELSE IF RE_DATE_LINE(s) THEN FALSE
        ELSE IF RE_TABLE_CONT(s) THEN FALSE
        ELSE IF /\ cfg.remove_headers_footers
                /\ is_headerish
                /\ (repeated_enough \/ Len(s) <= cfg.header_max_len) THEN FALSE
        ELSE IF \E k \in 1..Len(compiled) : PatSearch(compiled[k], s) THEN FALSE
        ELSE TRUE

\* _drop_header_footer_lines, lines 183-239
_drop_header_footer_lines(lines, cfg) ==
    SelectSeq(lines, LAMBDA ln : KeepsLine(lines, cfg, ln))

(* _soften_inline_newlines, lines 145-161.  Line 155 reads the unbound name *)
(* windows as soon as cur is a non-empty line of at most window characters  *)
(* and nxt is non-empty, so the merge of lines 156-158 is never reached.    *)
RECURSIVE SoftenLoop(_, _, _, _)
SoftenLoop(lines, i, out, window) ==
    IF i > Len(lines) THEN Ok(JoinLines(out))
    ELSE IF /\ i + 1 <= Len(lines)
            /\ 0 < Len(lines[i]) /\ Len(lines[i]) <= window
            /\ 0 < Len(lines[i + 1])
         THEN Raise("NameError", 155)
         ELSE SoftenLoop(lines, i + 1, Append(out, lines[i]), window)

_soften_inline_newlines(t, window) ==
    SoftenLoop(SplitOn(t, 1, <<>>, {NL}), 1, <<>>, window)

(* clean, lines 247-276.  config None stands for the default CleanConfig.   *)
(* With normalize_bullets on, line 260 reads cfg.bullet_symbol, an          *)
(* attribute CleanConfig does not have (the field is bullet_sumbol).        *)
clean(t, config) ==
    LET cfg == IF config = None THEN CleanConfig ELSE config
        t1 == _strip_control_chars(_normalize_unicode(t))
        t2 == IF cfg.fix_hyphenation THEN _fix_hyphenation(t1) ELSE t1
        t3 == IF cfg.normalize_dashes THEN _normalize_dashes(t2) ELSE t2
        lines == _drop_header_footer_lines(splitlines(t3), cfg)
        t4 == JoinLines(lines)
        soft == IF cfg.soften_inline_newlines
                THEN _soften_inline_newlines(t4, cfg.inline_newline_window)
                ELSE Ok(t4)
    IN  IF cfg.normalize_bullets THEN Raise("AttributeError", 260)
        ELSE IF soft.status = "raise" THEN soft
        ELSE Ok(_collapse_spaces_and_newlines(soft.val, cfg.collapse_spaces,
                                              cfg.max_consecutive_newlines))

\* the configurations the caller passes to clean
CleanConfigs ==
    { None,
      [CleanConfig EXCEPT !.normalize_bullets = FALSE],
      [CleanConfig EXCEPT !.normalize_bullets = FALSE,
                          !.soften_inline_newlines = TRUE],
      [CleanConfig EXCEPT !.normalize_bullets = FALSE,
                          !.extra_header_footer_regexes = <<"[", "a">>],
      [CleanConfig EXCEPT !.normalize_bullets = FALSE,
                          !.remove_page_numbers = FALSE,
                          !.remove_headers_footers = FALSE,
                          !.collapse_spaces = FALSE,
                          !.fix_hyphenation = FALSE,
                          !.normalize_dashes = FALSE,
                          !.max_consecutive_newlines = 1] }

(***************************************************************************)
(* The caller                                                              *)
(***************************************************************************)
Init ==
    /\ text \in Texts
    /\ call = "none"
    /\ arg = <<>>
    /\ ccfg = None
    /\ scfg = SegmentConfig
    /\ ret = Ok(None)

\* the caller has made no segmenter call yet: the pipeline cleans the raw
\* text once and hands the text it holds to the segmenter
Pending == call \in {"none", "clean"}

\* text = clean(text, config); the held text is replaced when clean returns
Clean ==
    \E config \in CleanConfigs :
        LET r == clean(text, config)
        IN  /\ call = "none"
            /\ call' = "clean"
            /\ arg' = text
            /\ ccfg' = config
            /\ ret' = r
            /\ text' = IF r.status = "ok" THEN r.val ELSE text
            /\ UNCHANGED scfg

ChunkTextWithSpans ==
    \E cfg \in SegConfigs :
        /\ Pending
        /\ call' = "chunk_text_with_spans"
        /\ arg' = text
        /\ scfg' = cfg
        /\ ret' = chunk_text_with_spans(text, cfg)
        /\ UNCHANGED <<text, ccfg>>

ChunkText ==
    \E cfg \in SegConfigs :
        /\ Pending
        /\ call' = "chunk_text"
        /\ arg' = text
        /\ scfg' = cfg
        /\ ret' = chunk_text(text, cfg)
        /\ UNCHANGED <<text, ccfg>>

SoftCut ==
    \E cfg \in SegConfigs :
        /\ Pending
        /\ call' = "_soft_cut"
        /\ arg' = text
        /\ scfg' = cfg
        /\ ret' = _soft_cut(text, cfg)
        /\ UNCHANGED <<text, ccfg>>

Next == Clean \/ ChunkTextWithSpans \/ ChunkText \/ SoftCut

Spec == Init /\ [][Next]_vars

(***************************************************************************)
(* Claims about the segmenter.  A returned pair (chunks, spans) is the     *)
(* record [chunks |-> ..., spans |-> ...], a span the pair <<start, end>>. *)
(***************************************************************************)
\* the last call was chunk_text_with_spans and it returned a (chunks, spans) pair
ReturnedPair ==
    /\ ret.status = "ok"
    /\ ret.val # None

Max(a, b) == IF a >= b THEN a ELSE b

\* the number of characters spans i and i+1 intersect in
Shared(spans, i) == Max(0, spans[i][2] - spans[i + 1][1])

\* chunks with the overlap removed from every chunk but the first, concatenated
RECURSIVE Collapse(_, _, _)
Collapse(chunks, spans, i) ==
    IF i > Len(chunks) THEN <<>>
    ELSE LET drop == IF i = 1 THEN 0 ELSE Shared(spans, i - 1)
         IN  SubSeq(chunks[i], drop + 1, Len(chunks[i]))
                 \o Collapse(chunks, spans, i + 1)

\* t is one paragraph and nothing else
SingleParagraph(t) == _split_paragraphs(t) = <<t>>

\* t has whitespace at an offset in [min_len, max_len]: a place a sentence
\* may end at, or a whitespace cut
HasCutPoint(t, cfg) ==
    \E k \in cfg.min_len..cfg.max_len : k + 1 <= Len(t) /\ t[k + 1] \in WS

\* C1: collapsing the overlaps out of the chunks chunk_text_with_spans
\* returns reconstructs the text exactly
C1_CoverageReconstructs ==
    call = "chunk_text_with_spans" =>
        /\ ReturnedPair
        /\ Collapse(ret.val.chunks, ret.val.spans, 1) = arg

\* C2: with min_len <= target_len <= max_len every returned chunk other than
\* the first and the last has min_len <= len(chunk) <= max_len
C2_MiddleChunksWithinBounds ==
    (/\ call = "chunk_text_with_spans"
     /\ scfg.min_len <= scfg.target_len
     /\ scfg.target_len <= scfg.max_len) =>
        /\ ReturnedPair
        /\ \A i \in 2..(Len(ret.val.chunks) - 1) :
               /\ scfg.min_len <= Len(ret.val.chunks[i])
               /\ Len(ret.val.chunks[i]) <= scfg.max_len

\* C3: a single paragraph longer than max_len that has cut points inside
\* [min_len, max_len] gives more than one chunk, each of at most max_len
\* characters
C3_LongParagraphIsSplit ==
    (/\ call = "chunk_text_with_spans"
     /\ SingleParagraph(arg)
     /\ Len(arg) > scfg.max_len
     /\ HasCutPoint(arg, scfg)) =>
        /\ ReturnedPair
        /\ Len(ret.val.chunks) > 1
        /\ \A i \in 1..Len(ret.val.chunks) :
               Len(ret.val.chunks[i]) <= scfg.max_len

\* C4: consecutive returned spans intersect in at most cfg.overlap characters
C4_OverlapAtMostConfigured ==
    call = "chunk_text_with_spans" =>
        /\ ReturnedPair
        /\ \A i \in 1..(Len(ret.val.spans) - 1) :
               Shared(ret.val.spans, i) <= scfg.overlap

\* C5: as many spans as chunks are returned, and span i is as long as chunk i
C5_SpanLengthsEqualChunkLengths ==
    call = "chunk_text_with_spans" =>
        /\ ReturnedPair
        /\ Len(ret.val.spans) = Len(ret.val.chunks)
        /\ \A i \in 1..Len(ret.val.chunks) :
               ret.val.spans[i][2] - ret.val.spans[i][1] = Len(ret.val.chunks[i])

\* C6: the returned spans are non-decreasing in start
C6_SpanStartsNonDecreasing ==
    call = "chunk_text_with_spans" =>
        /\ ReturnedPair
        /\ \A i \in 1..(Len(ret.val.spans) - 1) :
               ret.val.spans[i][1] <= ret.val.spans[i + 1][1]

\* C7: on a text without a paragraph (empty, or whitespace and newlines only)
\* chunk_text_with_spans returns an empty chunk list and an empty span list
\* and chunk_text returns an empty list
C7_EmptyTextGivesEmptyLists ==
    /\ (call = "chunk_text_with_spans" /\ _split_paragraphs(arg) = <<>>) =>
           /\ ReturnedPair
           /\ ret.val.chunks = <<>>
           /\ ret.val.spans = <<>>
    /\ (call = "chunk_text" /\ _split_paragraphs(arg) = <<>>) =>
           /\ ret.status = "ok"
           /\ ret.val # None
           /\ ret.val = <<>>

\* C8: a single paragraph longer than max_len without any cut point (no
\* whitespace at all) is returned whole as exactly one chunk
C8_OversizedParagraphEmittedWhole ==
    (/\ call = "chunk_text_with_spans"
     /\ SingleParagraph(arg)
     /\ Len(arg) > scfg.max_len
     /\ \A k \in 1..Len(arg) : arg[k] \notin WS) =>
        /\ ReturnedPair
        /\ ret.val.chunks = <<arg>>

(***************************************************************************)
(* Claims about clean                                                      *)
(***************************************************************************)
\* config without the patterns re.compile rejects
WithoutInvalidPatterns(config) ==
    IF config = None THEN None
    ELSE [config EXCEPT !.extra_header_footer_regexes =
              extra_compiled(config.extra_header_footer_regexes)]

\* C9: clean is idempotent: clean(clean(t, c), c) = clean(t, c) for every
\* text t and every configuration c
C9_CleanIdempotent ==
    call = "clean" =>
        /\ ret.status = "ok"
        /\ clean(ret.val, ccfg) = ret

\* C10: clean is total: it returns a string for every text and configuration,
\* and an invalid caller-supplied pattern changes nothing in the result
C10_CleanTotal ==
    call = "clean" =>
        /\ ret.status = "ok"
        /\ clean(arg, WithoutInvalidPatterns(ccfg)) = ret

(***************************************************************************)
(* structure_parser.py: the heading patterns.  Offsets of the source are   *)
(* counted from 0, positions of the model from 1: the character at offset  *)
(* k is s[k + 1].  A match is the record [start, end, kind, id, title] of  *)
(* the positions it spans and of the text of its groups.                   *)
(***************************************************************************)
W_razdel == <<"cy_r", "cy_a", "cy_z", "cy_d", "cy_e", "cy_l">>
W_glava == <<"cy_g", "cy_l", "cy_a", "cy_v", "cy_a">>
W_chast == <<"cy_ch", "cy_a", "cy_s", "cy_t", "cy_soft">>
W_prilozhenie ==
    <<"cy_p", "cy_r", "cy_i", "cy_l", "cy_o", "cy_zh", "cy_e", "cy_n", "cy_i",
      "cy_e">>
W_punkt == <<"cy_p", "cy_u", "cy_n", "cy_k", "cy_t">>
W_podpunkt ==
    <<"cy_p", "cy_o", "cy_d", "cy_p", "cy_u", "cy_n", "cy_k", "cy_t">>
W_p == <<"cy_p", ".">>

\* [IVXLCDM] under re.IGNORECASE, line 26
RomanChars ==
    {"I", "V", "X", "L", "C", "D", "M", "i", "v", "x", "l", "c", "d", "m"}

\* [A-YA A-Z] of lines 32 and 44: the code points U+0041..U+042F (the first
\* A is the Latin letter) over the modelled characters
RangeLatinAToCyrYa ==
    Latin \cup Range(CyrUpper) \cup {"_", NBSP, SHY, "u00b7"}

\* [A-YA A-Z\d] under re.IGNORECASE, line 32
AppendixIdChars == RangeLatinAToCyrYa \cup Range(CyrLower) \cup Digits

\* the positions ^ matches at under re.MULTILINE
LineStarts(s) == {1} \cup {k + 1 : k \in {j \in 1..Len(s) : s[j] = NL}}

\* the end of \d+(?:\.\d+){0,groups} read greedily from i; i when no digit
RECURSIVE DottedEnd(_, _, _)
DottedEnd(s, i, groups) ==
    LET e == RunEnd(s, i, Digits)
    IN  IF e = i THEN i
        ELSE IF /\ groups > 0
                /\ e + 1 <= Len(s)
                /\ s[e] = "."
                /\ s[e + 1] \in Digits
             THEN DottedEnd(s, e + 1, groups - 1)
             ELSE e

\* the end of (?:[IVXLCDM]+|\d+) read from i; i when neither matches
SectionIdEnd(s, i) ==
    IF RunEnd(s, i, RomanChars) > i THEN RunEnd(s, i, RomanChars)
    ELSE RunEnd(s, i, Digits)

(* The keyword patterns, lines 25-57, all compiled with IGNORECASE and       *)
(* MULTILINE: leading whitespace, one of the key words (the kind group), at *)
(* least min_sep whitespace characters, the id group, whitespace, an        *)
(* optional "." or ")" when dot_paren, whitespace, and the title group up   *)
(* to the end of the line.                                                  *)
\* RE_SECTION, lines 25-28: the id is a Roman numeral or a number
RE_SECTION ==
    [words |-> {W_razdel, W_glava, W_chast}, min_sep |-> 1, id |-> "numeral",
     id_optional |-> FALSE, dot_paren |-> TRUE]

\* RE_APPENDIX, lines 31-34: the id group is optional
RE_APPENDIX ==
    [words |-> {W_prilozhenie}, min_sep |-> 0, id |-> "index",
     id_optional |-> TRUE, dot_paren |-> TRUE]

\* RE_CLAUSE, lines 37-40: the id has at most four dotted groups
RE_CLAUSE ==
    [words |-> {W_punkt, W_podpunkt, W_p}, min_sep |-> 1, id |-> "dotted4",
     id_optional |-> FALSE, dot_paren |-> TRUE]

\* RE_TABLE, lines 49-52
RE_TABLE ==
    [words |-> {W_tablica}, min_sep |-> 1, id |-> "dotted",
     id_optional |-> FALSE, dot_paren |-> FALSE]

\* RE_FIG, lines 54-57
RE_FIG ==
    [words |-> {W_risunok}, min_sep |-> 1, id |-> "dotted",
     id_optional |-> FALSE, dot_paren |-> FALSE]

\* the position after the id group read greedily from i; i when it is empty
IdEnd(id, s, i) ==
    CASE id = "numeral" -> SectionIdEnd(s, i)
      [] id = "index" -> RunEnd(s, i, AppendixIdChars)
      [] id = "dotted4" -> DottedEnd(s, i, 4)
      [] id = "dotted" -> DottedEnd(s, i, Len(s))

\* The match of a keyword pattern at line start p, or None.  Every
\* quantifier is greedy and what follows it starts with a character it
\* cannot match, so the first attempt decides.
HeadingAt(s, p, pattern) ==
    LET k == RunEnd(s, p, WS)
        found == {w \in pattern.words : Lit(s, {k}, w) # {}}
        w == CHOOSE x \in found : TRUE
        ke == k + Len(w)
        i == RunEnd(s, ke, WS)
        ie == IdEnd(pattern.id, s, i)
        a == RunEnd(s, ie, WS)
        b == IF pattern.dot_paren /\ a <= Len(s) /\ s[a] \in {".", ")"}
             THEN a + 1 ELSE a
        t == RunEnd(s, b, WS)
        e == RunEnd(s, t, Dot)
    IN  IF found = {} THEN None
        ELSE IF i - ke < pattern.min_sep THEN None
        ELSE IF ie = i /\ ~pattern.id_optional THEN None
        ELSE [start |-> p, end |-> e, kind |-> SubSeq(s, k, ke - 1),
              id |-> SubSeq(s, i, ie - 1), title |-> SubSeq(s, t, e - 1)]

\* RE_NUM_TITLE, lines 43-46 (no IGNORECASE, no kind group): whether the
\* pattern matches at line start p
RE_NUM_TITLE(s, p) ==
    LET d0 == Plus(s, Star(s, {p}, WS), Digits)
        d1 == Plus(s, LitCS(s, d0, <<".">>), Digits)
        d2 == Plus(s, LitCS(s, d1, <<".">>), Digits)
        t0 == Rep(s, Plus(s, d0 \cup d1 \cup d2, WS), RangeLatinAToCyrYa, 1, 1)
    IN  \E q \in Rep(s, t0, Dot, 2, Len(s)) : q = Len(s) + 1 \/ s[q] = NL

\* pattern.finditer(s) from position p on: the non-overlapping matches,
\* left to right.  A match can only start at a line start.
RECURSIVE finditer(_, _, _)
finditer(pattern, s, p) ==
    IF p > Len(s) THEN <<>>
    ELSE IF p \notin LineStarts(s) THEN finditer(pattern, s, p + 1)
    ELSE CHOOSE found \in
             { IF m = None THEN finditer(pattern, s, p + 1)
               ELSE <<m>> \o finditer(pattern, s, m.end) :
                   m \in {HeadingAt(s, p, pattern)} } : TRUE

(***************************************************************************)
(* structure_parser.py: anchors.  An Anchor is the record [kind, id,       *)
(* title, start, end, level, raw_kind] of the dataclass of lines 64-72.    *)
(***************************************************************************)
\* _mk_anchor, lines 103-115.  For a clause or a numbered title line 110
\* calls _dot_depth, a name the module does not define (the helper of line
\* 100 is named _bot_depth).
_mk_anchor(kind, raw_kind, _id, title, start) ==
    IF kind \in {"clause", "numtitle"} THEN Raise("NameError", 110)
    ELSE Ok([kind |-> kind, raw_kind |-> raw_kind, id |-> strip(_id),
             title |-> strip(title), start |-> start, end |-> 1,
             level |-> IF kind \in {"section", "appendix"} THEN 1
                       ELSE IF kind \in {"table", "figure"} THEN 99
                       ELSE 5])

\* the anchors one loop of lines 128-144 appends for the matches of a pattern
Anchors(kind, matches) ==
    CHOOSE out \in
        { [k \in 1..Len(ms) |->
              _mk_anchor(kind, ms[k].kind, ms[k].id, ms[k].title,
                         ms[k].start - 1).val] : ms \in {matches} } : TRUE

\* list.sort(key=lambda a: a.start), line 147: stable
RECURSIVE InsertByStart(_, _)
InsertByStart(sorted, a) ==
    IF sorted = <<>> THEN <<a>>
    ELSE IF Head(sorted).start <= a.start
         THEN <<Head(sorted)>> \o InsertByStart(Tail(sorted), a)
         ELSE <<a>> \o sorted

RECURSIVE SortByStart(_)
SortByStart(anchors) ==
    IF anchors = <<>> THEN <<>>
    ELSE InsertByStart(SortByStart(SubSeq(anchors, 1, Len(anchors) - 1)),
                       anchors[Len(anchors)])

\* the loops of lines 148-150 and 165-166: end is the start of the next
\* anchor, len(text) for the last
SetEnds(anchors, n) ==
    [i \in 1..Len(anchors) |->
        [anchors[i] EXCEPT !.end = IF i + 1 <= Len(anchors)
                                   THEN anchors[i + 1].start
                                   ELSE n]]

\* priority.get(kind, 5), line 158
priority(kind) ==
    CASE kind \in {"section", "appendix"} -> 1
      [] kind = "clause" -> 2
      [] kind = "numtitle" -> 3
      [] kind \in {"table", "figure"} -> 9
      [] OTHER -> 5

\* the loop of lines 154-162 from the i-th anchor on
RECURSIVE DedupLoop(_, _, _)
DedupLoop(anchors, i, dedup) ==
    IF i > Len(anchors) THEN dedup
    ELSE LET a == anchors[i]
             last == dedup[Len(dedup)]
             d == a.start - last.start
         IN  IF /\ dedup # <<>>
                /\ (IF d < 0 THEN -d ELSE d) < 2
                /\ a.id = last.id
             THEN IF priority(a.kind) < priority(last.kind)
                  THEN DedupLoop(anchors, i + 1,
                                 [dedup EXCEPT ![Len(dedup)] = a])
                  ELSE DedupLoop(anchors, i + 1, dedup)
             ELSE DedupLoop(anchors, i + 1, Append(dedup, a))

\* the matches the loops of lines 128-144 iterate over, by kind
Matches(t) ==
    [kind \in {"section", "appendix", "clause", "table", "figure"} |->
        finditer(CASE kind = "section" -> RE_SECTION
                   [] kind = "appendix" -> RE_APPENDIX
                   [] kind = "clause" -> RE_CLAUSE
                   [] kind = "table" -> RE_TABLE
                   [] kind = "figure" -> RE_FIG, t, 1)]

\* the anchors the loops of lines 128-144 append for the matches found, in
\* the order of the loops
Appended(found) ==
    LET kinds == <<"section", "appendix", "table", "figure">>
        of == [k \in 1..4 |-> Anchors(kinds[k], found[kinds[k]])]
    IN  of[1] \o of[2] \o of[3] \o of[4]

\* lines 147-168 on the appended anchors, for a text of n characters
SortAndDedup(anchors, n) ==
    SetEnds(DedupLoop(SetEnds(SortByStart(anchors), n), 1, <<>>), n)

(* find_anchors, lines 125-168.  The first clause match ends the call in   *)
(* the NameError of _mk_anchor.  For the first numbered-title match line   *)
(* 138 reads m.group("kind"), a group RE_NUM_TITLE does not have:          *)
(* IndexError.  Otherwise the list holds section, appendix, table and      *)
(* figure anchors.                                                         *)
find_anchors(t) ==
    CHOOSE r \in
        { IF found["clause"] # <<>>
          THEN _mk_anchor("clause", found["clause"][1].kind,
                          found["clause"][1].id, found["clause"][1].title,
                          found["clause"][1].start - 1)
          ELSE IF \E p \in LineStarts(t) : RE_NUM_TITLE(t, p)
          THEN Raise("IndexError", 138)
          ELSE Ok(SortAndDedup(Appended(found), Len(t))) :
              found \in {Matches(t)} } : TRUE

\* a key word with its first letter in upper case
Capital(w) ==
    [w EXCEPT ![1] =
        CyrUpper[CHOOSE k \in DOMAIN CyrLower : CyrLower[k] = w[1]]]

\* label, lines 75-92: a module-level function, not a method of Anchor
label(a) ==
    LET base ==
            CASE a.kind = "section" ->
                     (IF a.raw_kind = <<>> THEN Capital(W_razdel)
                      ELSE a.raw_kind) \o <<" ">> \o a.id
              [] a.kind = "appendix" ->
                     strip(Capital(W_prilozhenie) \o <<" ">> \o a.id)
              [] a.kind = "clause" -> Capital(W_punkt) \o <<" ">> \o a.id
              [] a.kind = "numtitle" -> a.id
              [] a.kind = "table" -> Capital(W_tablica) \o <<" ">> \o a.id
              [] a.kind = "figure" -> Capital(W_risunok) \o <<" ">> \o a.id
              [] OTHER -> a.id
    IN  IF a.title # <<>> THEN strip(base \o <<":", " ">> \o a.title)
        ELSE base

\* the loop of lines 185-189: the last anchor before the first whose start
\* is after pos
RECURSIVE CandidateLoop(_, _, _, _)
CandidateLoop(anchors, i, pos, candidate) ==
    IF i > Len(anchors) THEN candidate
    ELSE IF anchors[i].start <= pos
         THEN CandidateLoop(anchors, i + 1, pos, anchors[i])
         ELSE candidate

\* the loop of lines 197-210 over reversed(anchors), at the i-th anchor.
\* Line 209 reads bext, a name that is never bound (the variable is best),
\* so best is never replaced.
RECURSIVE BestLoop(_, _, _, _)
BestLoop(anchors, i, pos, best) ==
    IF i < 1 THEN Ok(best)
    ELSE LET a == anchors[i]
         IN  IF a.start > pos THEN BestLoop(anchors, i - 1, pos, best)
             ELSE IF a.kind \in {"table", "figure"}
                  THEN BestLoop(anchors, i - 1, pos, best)
             ELSE IF a.start <= pos /\ a.start >= best.start
                  THEN Raise("NameError", 209)
             ELSE BestLoop(anchors, i - 1, pos, best)

\* _best_anchor_for_pos(anchors, pos) for an integer pos, lines 180-211
_best_anchor_for_pos(anchors, pos) ==
    LET candidate == CandidateLoop(anchors, 1, pos, None)
    IN  IF anchors = <<>> THEN Ok(None)
        ELSE IF candidate = None THEN Ok(None)
        ELSE BestLoop(anchors, Len(anchors), pos, candidate)

\* _best_anchor_for_pos(anchors, start) as line 221 calls it: line 220 binds
\* start to current_process, the function imported at line 14, and the
\* comparison a.start <= pos of line 186 between an int and a function is a
\* TypeError
BestAnchorForFunction(anchors) ==
    IF anchors = <<>> THEN Ok(None) ELSE Raise("TypeError", 186)

\* annotate_chunks_with_sections, lines 215-224.  Every iteration looks up
\* the same start; line 222 calls anchor.lebel(), an attribute Anchor does
\* not have.
annotate_chunks_with_sections(t, chunks) ==
    CHOOSE r \in
        { IF found.status = "raise" THEN found
          ELSE IF chunks = <<>> THEN Ok(<<>>)
          ELSE IF BestAnchorForFunction(found.val).status = "raise"
          THEN BestAnchorForFunction(found.val)
          ELSE IF BestAnchorForFunction(found.val).val # None
          THEN Raise("AttributeError", 222)
          ELSE Ok([i \in 1..Len(chunks) |-> None]) :
              found \in {find_anchors(t)} } : TRUE

(***************************************************************************)
(* The caller of the structure parser holds a text made of at most         *)
(* MaxHeadingPieces pieces: headings of every kind, and the characters     *)
(* that separate, extend or break them.                                    *)
(***************************************************************************)
MaxHeadingPieces == 3

HeadingPieces ==
    { <<NL>>, <<" ">>, <<"a">>, <<".">>, <<"1">>, <<"A">>,
      Capital(W_razdel) \o <<" ", "1">>,
      Capital(W_razdel) \o <<" ", "I", ".">>,
      Capital(W_tablica) \o <<" ", "1">>,
      Capital(W_risunok) \o <<" ", "1", ".", "2">>,
      Capital(W_prilozhenie),
      Capital(W_p) \o <<" ", "5", ".", "2">>,
      <<"5", ".", "2", " ", "A", "b", "c">> }

RECURSIVE ConcatsOf(_, _)
ConcatsOf(pieces, n) ==
    IF n = 0 THEN {<<>>}
    ELSE LET prev == ConcatsOf(pieces, n - 1)
         IN  prev \cup {t \o p : t \in prev, p \in pieces}

HeadingTexts == ConcatsOf(HeadingPieces, MaxHeadingPieces)

\* the chunk lists handed to annotate_chunks_with_sections
ChunkLists(t) == {<<>>, <<t>>, _split_paragraphs(t)}

InitAnchors ==
    /\ text \in HeadingTexts
    /\ call = "none"
    /\ arg = <<>>
    /\ ccfg = None
    /\ scfg = SegmentConfig
    /\ ret = Ok(None)

\* anchors = find_anchors(text)
FindAnchors ==
    /\ call = "none"
    /\ call' = "find_anchors"
    /\ arg' = text
    /\ ret' = find_anchors(text)
    /\ UNCHANGED <<text, ccfg, scfg>>

\* _best_anchor_for_pos(anchors, pos) on the anchors find_anchors returned,
\* for an offset of the text
BestAnchorForPos ==
    \E pos \in 0..Len(text) :
        /\ call = "find_anchors"
        /\ ret.status = "ok"
        /\ call' = "_best_anchor_for_pos"
        /\ arg' = [anchors |-> ret.val, pos |-> pos]
        /\ ret' = _best_anchor_for_pos(ret.val, pos)
        /\ UNCHANGED <<text, ccfg, scfg>>

\* labels = annotate_chunks_with_sections(text, chunks)
AnnotateChunksWithSections ==
    \E chunks \in ChunkLists(text) :
        /\ call = "none"
        /\ call' = "annotate_chunks_with_sections"
        /\ arg' = [text |-> text, chunks |-> chunks]
        /\ ret' = annotate_chunks_with_sections(text, chunks)
        /\ UNCHANGED <<text, ccfg, scfg>>

NextAnchors ==
    FindAnchors \/ BestAnchorForPos \/ AnnotateChunksWithSections
        \/ ChunkTextWithSpans

SpecAnchors == InitAnchors /\ [][NextAnchors]_vars

(***************************************************************************)
(* Claims about the structure parser                                       *)
(***************************************************************************)
\* C11: find_anchors, annotate_chunks_with_sections (with its best-anchor
\* lookup) and chunk_text_with_spans are total: whatever the text, no
\* exception escapes them
C11_ParserAndChunkerTotal ==
    call \in {"find_anchors", "_best_anchor_for_pos",
              "annotate_chunks_with_sections", "chunk_text_with_spans"}
        => ret.status = "ok"

\* every anchor is non-empty, ends where the next one starts, and the last
\* one ends at offset n
Chained(anchors, n) ==
    /\ \A i \in 1..Len(anchors) : anchors[i].start < anchors[i].end
    /\ \A i \in 1..(Len(anchors) - 1) : anchors[i].end = anchors[i + 1].start
    /\ anchors # <<>> => anchors[Len(anchors)].end = n

\* C14: for every text find_anchors returns a chained list: each anchor ends
\* where the next starts, the last ends at len(text), and no anchor is empty
C14_AnchorsChained ==
    call = "find_anchors" =>
        /\ ret.status = "ok"
        /\ Chained(ret.val, Len(arg))

\* the headings the keyword patterns find in t, as [kind, id, start]
Candidates(t) ==
    UNION { { [kind |-> kind, id |-> strip(m.id), start |-> m.start - 1] :
                  m \in Range(found[kind]) } :
            kind \in {"section", "appendix", "clause", "table", "figure"},
            found \in {Matches(t)} }

\* anchors (or candidates) a and b are near-duplicates: the same id, and
\* starts less than 2 characters apart
NearDuplicates(a, b) ==
    /\ a.id = b.id
    /\ a.start - b.start < 2
    /\ b.start - a.start < 2

\* C15: find_anchors returns a list in which no two anchors are
\* near-duplicates, and every heading found in the text is represented in it
\* by a near-duplicate of at least its own priority (Section/Appendix before
\* Clause before NumberedTitle before Table/Figure)
C15_DedupKeepsHighestPriority ==
    call = "find_anchors" =>
        /\ ret.status = "ok"
        /\ \A i, j \in 1..Len(ret.val) :
               i # j => ~NearDuplicates(ret.val[i], ret.val[j])
        /\ \A c \in Candidates(arg) :
               \E i \in 1..Len(ret.val) :
                   /\ NearDuplicates(ret.val[i], c)
                   /\ priority(ret.val[i].kind) <= priority(c.kind)

\* the number of "." in an id
Dots(id) == Cardinality({k \in 1..Len(id) : id[k] = "."})

\* the level the specification gives an anchor of this kind and id
LevelOf(kind, id) ==
    CASE kind \in {"section", "appendix"} -> 1
      [] kind \in {"clause", "numtitle"} ->
             IF 1 + Dots(id) < 6 THEN 1 + Dots(id) ELSE 6
      [] kind \in {"table", "figure"} -> 99

\* C16: find_anchors builds an anchor for every heading, and its level is
\* fixed by its kind: 1 for Section/Appendix, min(1 + dots of the id, 6) for
\* Clause/NumberedTitle ("5.2" gives 2), 99 for Table/Figure
C16_LevelFixedByKind ==
    call = "find_anchors" =>
        /\ ret.status = "ok"
        /\ \A i \in 1..Len(ret.val) :
               ret.val[i].level = LevelOf(ret.val[i].kind, ret.val[i].id)
        /\ \A c \in Candidates(arg) :
               \E i \in 1..Len(ret.val) :
                   /\ ret.val[i].start = c.start
                   /\ ret.val[i].level = LevelOf(c.kind, c.id)

\* the indices of the anchors that start at or before pos and are no table
\* or figure
SectionsBefore(anchors, pos) ==
    {i \in 1..Len(anchors) :
        anchors[i].start <= pos /\ anchors[i].kind \notin {"table", "figure"}}

\* C17: a lookup that returns never returns a Table or Figure anchor when
\* some other anchor starts at or before pos: it returns the nearest
\* preceding anchor that is no table or figure
C17_LookupSkipsTablesAndFigures ==
    (call = "_best_anchor_for_pos" /\ ret.status = "ok") =>
        LET before == SectionsBefore(arg.anchors, arg.pos)
        IN  before # {} =>
                ret.val = arg.anchors[CHOOSE i \in before :
                                          \A j \in before : j <= i]

\* C18: the lookup returns no anchor exactly when no anchor starts at or
\* before pos (the empty list included); otherwise it returns an anchor that
\* starts at or before pos
C18_LookupNoneIffNothingBefore ==
    call = "_best_anchor_for_pos" =>
        /\ ret.status = "ok"
        /\ ret.val = None <=>
               ~\E i \in 1..Len(arg.anchors) : arg.anchors[i].start <= arg.pos
        /\ ret.val # None => ret.val.start <= arg.pos

\* the offset at or after `from` at which chunk c occurs in t (len(t) when
\* it does not)
FindFrom(t, c, from) ==
    LET at == {k \in from..(Len(t) - Len(c)) :
                   SubSeq(t, k + 1, k + Len(c)) = c}
    IN  IF at = {} THEN Len(t) ELSE CHOOSE k \in at : \A j \in at : k <= j

\* the offset at which the span of chunk i starts: chunks lie in the text in
\* order
RECURSIVE SpanStart(_, _, _)
SpanStart(t, chunks, i) ==
    IF i = 1 THEN FindFrom(t, chunks[1], 0)
    ELSE FindFrom(t, chunks[i], SpanStart(t, chunks, i - 1))

\* C20: the label annotate_chunks_with_sections returns for chunk i is the
\* label of the best anchor for the offset at which the span of chunk i
\* starts (None when there is no such anchor)
C20_LabelOfBestAnchorAtSpanStart ==
    call = "annotate_chunks_with_sections" =>
        /\ ret.status = "ok"
        /\ Len(ret.val) = Len(arg.chunks)
        /\ \A i \in 1..Len(arg.chunks) :
               LET best == _best_anchor_for_pos(
                               find_anchors(arg.text).val,
                               SpanStart(arg.text, arg.chunks, i))
               IN  /\ best.status = "ok"
                   /\ ret.val[i] = IF best.val = None THEN None
                                   ELSE label(best.val)

(***************************************************************************)
(* segmenter.py: approximate_pages.  An entry of pages_meta is a dict,     *)
(* modelled as a record that has some of the fields page and chars; a span *)
(* is the pair <<start, end>>, a page range the pair <<first, last>>.      *)
(***************************************************************************)
\* int(p.get(key, 0))
Get(p, key) == IF key \in DOMAIN p THEN p[key] ELSE 0

\* the loop of lines 300-304 from the i-th page on: s characters lie before
\* it
RECURSIVE CutoffsLoop(_, _, _, _)
CutoffsLoop(pages_meta, i, s, cutoffs) ==
    IF i > Len(pages_meta) THEN cutoffs
    ELSE LET s2 == s + Get(pages_meta[i], "chars")
             pg == IF Get(pages_meta[i], "page") # 0
                   THEN Get(pages_meta[i], "page")
                   ELSE Len(cutoffs) + 1
         IN  CutoffsLoop(pages_meta, i + 1, s2, Append(cutoffs, <<s, s2, pg>>))

MinOf(S) == CHOOSE x \in S : \A y \in S : x <= y

MaxOf(S) == CHOOSE x \in S : \A y \in S : x >= y

\* the indices of the cutoffs a span hits, line 308
Hits(cutoffs, span) ==
    {k \in 1..Len(cutoffs) :
        ~(cutoffs[k][2] <= span[1] \/ cutoffs[k][1] >= span[2])}

\* a page range that takes the first and the last page hit, in the order of
\* pages_meta
PageRangeInListOrder(cutoffs, span) ==
    IF Hits(cutoffs, span) # {}
    THEN <<cutoffs[MinOf(Hits(cutoffs, span))][3],
           cutoffs[MaxOf(Hits(cutoffs, span))][3]>>
    ELSE <<None, None>>

\* lines 307-312 for one span
PageRange(cutoffs, span) ==
    LET pages_hit == {cutoffs[k][3] : k \in Hits(cutoffs, span)}
    IN  IF pages_hit # {} THEN <<MinOf(pages_hit), MaxOf(pages_hit)>>
        ELSE <<None, None>>

\* approximate_pages, lines 290-313
approximate_pages(pages_meta, spans) ==
    IF pages_meta = <<>> THEN Ok([i \in 1..Len(spans) |-> <<None, None>>])
    ELSE Ok([i \in 1..Len(spans) |->
                PageRange(CutoffsLoop(pages_meta, 1, 0, <<>>), spans[i])])

(***************************************************************************)
(* The caller of the page mapper holds the per-page statistics of at most  *)
(* MaxPages pages and at most MaxSpans chunk spans.                        *)
(***************************************************************************)
MaxPages == 2

MaxSpans == 2

PageDicts ==
    { [page |-> 1, chars |-> 100], [page |-> 2, chars |-> 50],
      [page |-> 5, chars |-> 50], [chars |-> 50], [page |-> 0, chars |-> 0] }

SpanPool ==
    { <<0, 0>>, <<0, 50>>, <<40, 60>>, <<50, 100>>, <<90, 120>>,
      <<100, 150>>, <<120, 120>>, <<150, 200>> }

RECURSIVE ListsOf(_, _)
ListsOf(S, n) ==
    IF n = 0 THEN {<<>>}
    ELSE LET prev == ListsOf(S, n - 1)
         IN  prev \cup {Append(l, x) : l \in prev, x \in S}

InitPages ==
    /\ text = <<>>
    /\ call = "none"
    /\ arg \in {[pages_meta |-> pm, spans |-> sp] :
                    pm \in ListsOf(PageDicts, MaxPages),
                    sp \in ListsOf(SpanPool, MaxSpans)}
    /\ ccfg = None
    /\ scfg = SegmentConfig
    /\ ret = Ok(None)

\* page_ranges = approximate_pages(pages_meta, spans)
ApproximatePages ==
    /\ call = "none"
    /\ call' = "approximate_pages"
    /\ ret' = approximate_pages(arg.pages_meta, arg.spans)
    /\ UNCHANGED <<text, arg, ccfg, scfg>>

NextPages == ApproximatePages

SpecPages == InitPages /\ [][NextPages]_vars

(***************************************************************************)
(* Claim about the page mapper                                             *)
(***************************************************************************)
\* the characters of the pages before page k
RECURSIVE CharsBefore(_, _)
CharsBefore(pages_meta, k) ==
    IF k = 1 THEN 0
    ELSE CharsBefore(pages_meta, k - 1) + Get(pages_meta[k - 1], "chars")

\* the number of page k: its page entry, or its position when it has none
PageNumber(pages_meta, k) ==
    IF Get(pages_meta[k], "page") # 0 THEN Get(pages_meta[k], "page") ELSE k

\* the numbers of the pages whose range [a, b) the span overlaps:
\* not (b <= start or a >= end)
PagesOverlapping(pages_meta, span) ==
    { PageNumber(pages_meta, k) :
          k \in { j \in 1..Len(pages_meta) :
                      LET a == CharsBefore(pages_meta, j)
                          b == a + Get(pages_meta[j], "chars")
                      IN  ~(b <= span[1] \/ a >= span[2]) } }

\* the pages of 100 and 50 characters and the span (90, 120) of the example
ExamplePages == <<[page |-> 1, chars |-> 100], [page |-> 2, chars |-> 50]>>

\* C19: approximate_pages returns one pair per span, in order: the least and
\* the greatest number of the pages whose cumulative range [a, b) the span
\* overlaps, and (None, None) when pages_meta is empty or no range overlaps;
\* pages of 100 and 50 characters and the span (90, 120) give (1, 2)
C19_PageRangePerSpan ==
    call = "approximate_pages" =>
        /\ ret.status = "ok"
        /\ Len(ret.val) = Len(arg.spans)
        /\ \A i \in 1..Len(arg.spans) :
               LET pages == PagesOverlapping(arg.pages_meta, arg.spans[i])
               IN  IF pages = {} THEN ret.val[i] = <<None, None>>
                   ELSE ret.val[i] = <<MinOf(pages), MaxOf(pages)>>
        /\ (arg.pages_meta = ExamplePages /\ arg.spans = <<<<90, 120>>>>)
               => ret.val = <<<<1, 2>>>>

\* approximate_pages has mapped the span (90, 120) over pages of 100 and 50
\* characters to the pages 1 to 2
C19_Witness ==
    /\ call = "approximate_pages"
    /\ arg.pages_meta = ExamplePages
    /\ arg.spans = <<<<90, 120>>>>
    /\ ret = Ok(<<<<1, 2>>>>)

(***************************************************************************)
(* The caller of the normalizer on a page of lines: the held text is made  *)
(* of at most MaxLines lines, blank lines, body lines and heading-like     *)
(* lines of three and of more than three characters.                       *)
(***************************************************************************)
MaxLines == 4

LinePool ==
    { <<>>, <<" ">>, <<"a">>, <<"I", "S", "O">>, <<"I", "S", "O", "5">>,
      Capital(W_tablica) \o <<" ", "1">> }

\* the configurations of the header and footer stage: a header_max_len
\* below the length of the longer lines, with the default and with a lower
\* header_min_repeats, the defaults, and the defaults with both removal
\* toggles off
HeaderConfigs ==
    { CleanConfig,
      [CleanConfig EXCEPT !.header_max_len = 3],
      [CleanConfig EXCEPT !.header_max_len = 3, !.header_min_repeats = 2],
      [CleanConfig EXCEPT !.remove_page_numbers = FALSE,
                          !.remove_headers_footers = FALSE] }

InitLines ==
    /\ text \in {JoinLines(lines) : lines \in ListsOf(LinePool, MaxLines)}
    /\ call = "none"
    /\ arg = <<>>
    /\ ccfg = None
    /\ scfg = SegmentConfig
    /\ ret = Ok(None)

\* lines = _drop_header_footer_lines(text.splitlines(), cfg), as lines
\* 262-263 of clean call it
DropHeaderFooterLines ==
    \E cfg \in HeaderConfigs :
        /\ call = "none"
        /\ call' = "_drop_header_footer_lines"
        /\ arg' = splitlines(text)
        /\ ccfg' = cfg
        /\ ret' = Ok(_drop_header_footer_lines(splitlines(text), cfg))
        /\ UNCHANGED <<text, scfg>>

NextLines == Clean \/ DropHeaderFooterLines

SpecLines == InitLines /\ [][NextLines]_vars

(***************************************************************************)
(* Claims about the blank-line cap and the header and footer stage         *)
(***************************************************************************)
\* the longest run of consecutive blank lines (empty or whitespace only)
\* among the lines from the i-th on, cur of them just before it
RECURSIVE BlankRun(_, _, _)
BlankRun(lines, i, cur) ==
    IF i > Len(lines) THEN cur
    ELSE IF strip(lines[i]) = <<>>
         THEN BlankRun(lines, i + 1, cur + 1)
         ELSE Max(cur, BlankRun(lines, i + 1, 0))

\* C12: with max_consecutive_newlines = N >= 1, a text clean returns holds at
\* most N consecutive blank lines, lines of whitespace only included,
\* whatever the other toggles are
C12_BlankLinesCapped ==
    (call = "clean" /\ ret.status = "ok") =>
        LET cfg == IF ccfg = None THEN CleanConfig ELSE ccfg
        IN  cfg.max_consecutive_newlines >= 1 =>
                BlankRun(SplitOn(ret.val, 1, <<>>, {NL}), 1, 0)
                    <= cfg.max_consecutive_newlines

\* the stripped line s is removed by a rule that comes before the header
\* rule (page number, date, table continuation) or by an extra pattern
DroppedByAnotherRule(s, cfg) ==
    \/ cfg.remove_page_numbers /\ (RE_PAGE_NUM_PURE(s) \/ RE_PAGE_WORD(s))
    \/ RE_DATE_LINE(s)
    \/ RE_TABLE_CONT(s)
    \/ \E k \in 1..Len(extra_compiled(cfg.extra_header_footer_regexes)) :
           PatSearch(extra_compiled(cfg.extra_header_footer_regexes)[k], s)

\* C13: with remove_headers_footers on, a non-blank line of the citation,
\* table-heading or figure-heading vocabulary is dropped exactly when it
\* repeats verbatim at least header_min_repeats times or is at most
\* header_max_len long
C13_HeaderDroppedIffRepeatedOrShort ==
    (call = "_drop_header_footer_lines" /\ ccfg.remove_headers_footers) =>
        /\ ret.status = "ok"
        /\ \A k \in 1..Len(arg) :
               LET s == strip(arg[k])
                   repeats == Cardinality({j \in 1..Len(arg) :
                                               strip(arg[j]) = s})
               IN  (/\ s # <<>>
                    /\ RE_HEADER_HINT(s) \/ RE_TABLE_HEAD(s) \/ RE_FIG_HEAD(s)
                    /\ ~DroppedByAnotherRule(s, ccfg))
                       => ((\A j \in 1..Len(ret.val) : ret.val[j] # arg[k])
                              <=> (\/ repeats >= ccfg.header_min_repeats
                                   \/ Len(s) <= ccfg.header_max_len))

(***************************************************************************)
(* Claims about the paragraph loop of chunk_text_with_spans and about      *)
(* _soft_cut                                                               *)
(***************************************************************************)
\* some paragraph of t occurs again later in t with the same text
RepeatsParagraph(t) ==
    LET paragraphs == _split_paragraphs(t)
    IN  \E i, j \in 1..Len(paragraphs) : i < j /\ paragraphs[i] = paragraphs[j]

\* every span starts inside t at an occurrence of the first character of its
\* chunk, and no span starts before the span of an earlier chunk ends by more
\* than the overlap
AttributedForward(t, chunks, spans, overlap) ==
    /\ Len(spans) = Len(chunks)
    /\ \A i \in 1..Len(chunks) :
           /\ spans[i][1] <= spans[i][2]
           /\ spans[i][2] <= Len(t)
           /\ chunks[i] # <<>> =>
                  /\ spans[i][1] < Len(t)
                  /\ t[spans[i][1] + 1] = chunks[i][1]
    /\ \A i \in 1..(Len(chunks) - 1) :
           spans[i + 1][1] >= spans[i][2] - overlap

\* C21: in chunk_text_with_spans the paragraph cursor only moves forward and
\* is at or past the end of every processed paragraph, so on a text in which
\* a paragraph's text occurs again every paragraph is processed and no chunk
\* is attributed to the offset of a paragraph consumed before it
C21_CursorOnlyMovesForward ==
    (call = "chunk_text_with_spans" /\ RepeatsParagraph(arg)) =>
        /\ ReturnedPair
        /\ AttributedForward(arg, ret.val.chunks, ret.val.spans, scfg.overlap)

\* the last n characters of s
LastChars(s, n) == SubSeq(s, Max(1, Len(s) - n + 1), Len(s))

\* t is two paragraphs, the first of at most max_len characters (so that it
\* has no cut point), and appending the second to it exceeds max_len
OverflowsOnAppend(t, cfg) ==
    LET paragraphs == _split_paragraphs(t)
    IN  /\ Len(paragraphs) = 2
        /\ Len(paragraphs[1]) <= cfg.max_len
        /\ Len(paragraphs[1]) + 2 + Len(paragraphs[2]) > cfg.max_len

\* C22: when appending a paragraph would make the buffer exceed max_len,
\* exactly one chunk is emitted for the step (here the whole buffer, there
\* being no cut point) and the next buffer is the trailing overlap characters
\* followed by the new paragraph: nothing is emitted twice and the new
\* paragraph is not dropped
C22_OverflowEmitsOneChunkAndReseeds ==
    (call = "chunk_text_with_spans" /\ OverflowsOnAppend(arg, scfg)) =>
        LET paragraphs == _split_paragraphs(arg)
            buf == strip(strip(LastChars(paragraphs[1], scfg.overlap))
                             \o <<NL, NL>> \o paragraphs[2])
        IN  /\ ReturnedPair
            /\ ret.val.chunks = <<paragraphs[1], buf>>

\* the offsets in buffer at which a sentence ends: behind a sentence-ending
\* character that whitespace follows, and at the end of the stripped buffer
SentenceEnds(buffer) ==
    { k \in 1..Len(buffer) :
          /\ buffer[k] \notin WS
          /\ \/ k = Len(rstrip(buffer))
             \/ buffer[k] \in SentEnd /\ buffer[k + 1] \in WS }

\* the target of _soft_cut: target_len, or the middle of [min_len, max_len]
\* when target_len is below min_len, clamped to [min_len, max_len]
Target(cfg) ==
    LET t == IF cfg.target_len < cfg.min_len
             THEN (cfg.min_len + cfg.max_len) \div 2 ELSE cfg.target_len
    IN  Max(cfg.min_len, IF t <= cfg.max_len THEN t ELSE cfg.max_len)

Dist(a, b) == IF a >= b THEN a - b ELSE b - a

\* the members of S closest to target
Closest(S, target) ==
    { k \in S : \A j \in S : Dist(k, target) <= Dist(j, target) }

\* C23: _soft_cut returns no cut point (-1) for a buffer of at most max_len
\* characters; for a longer buffer an offset it returns lies in
\* [min_len, max_len] and is the sentence end in that range closest to
\* target_len, or, when no sentence ends in that range, the whitespace
\* position in that range nearest target_len
C23_SoftCutPicksClosestSentenceEnd ==
    call = "_soft_cut" =>
        LET range == scfg.min_len..scfg.max_len
            ends == SentenceEnds(arg) \cap range
            spaces == { k \in range : k < Len(arg) /\ arg[k + 1] \in WS }
        IN  /\ ret.status = "ok"
            /\ Len(arg) <= scfg.max_len => ret.val = -1
            /\ (Len(arg) > scfg.max_len /\ ret.val # -1) =>
                   /\ ret.val \in range
                   /\ ends # {} => ret.val \in Closest(ends, Target(scfg))
                   /\ ends = {} => ret.val \in Closest(spaces, Target(scfg))

(***************************************************************************)
(* The header and footer stage on service lines.  The caller holds a text  *)
(* of at most MaxStageLines lines: blank and body lines, a page number, a  *)
(* standard designation, a numeric date, a month-and-year date and a       *)
(* table-continuation line.                                                *)
(***************************************************************************)
MaxStageLines == 3

W_maya == <<"cy_m", "cy_a", "cy_ya">>

ServiceLinePool ==
    { <<>>, <<" ">>, <<"a">>, <<"5">>, <<"I", "S", "O">>,
      <<"1", ".", "2", ".", "2", "0">>,
      W_maya \o <<" ", "2", "0", "2", "0", " ">> \o W_g,
      Capital(W_prodolzhenie) \o <<" ">> \o W_tablicy \o <<" ", "1">> }

InitServiceLines ==
    /\ text \in {JoinLines(lines) :
                     lines \in ListsOf(ServiceLinePool, MaxStageLines)}
    /\ call = "none"
    /\ arg = <<>>
    /\ ccfg = None
    /\ scfg = SegmentConfig
    /\ ret = Ok(None)

SpecServiceLines == InitServiceLines /\ [][NextLines]_vars

\* the stage was called with remove_page_numbers and remove_headers_footers
\* both off and without extra patterns
StageWithTogglesOff ==
    /\ call = "_drop_header_footer_lines"
    /\ ~ccfg.remove_page_numbers
    /\ ~ccfg.remove_headers_footers
    /\ ccfg.extra_header_footer_regexes = <<>>

\* the line is a date line or a table-continuation line
DateOrTableContinuation(ln) ==
    /\ strip(ln) # <<>>
    /\ RE_DATE_LINE(strip(ln)) \/ RE_TABLE_CONT(strip(ln))

\* C24 as stated: with remove_page_numbers and remove_headers_footers both
\* off and no extra patterns the header and footer stage removes no line, so
\* the lines after the stage are the lines before it
C24_TogglesOffRemovesNoLine ==
    StageWithTogglesOff =>
        /\ ret.status = "ok"
        /\ ret.val = arg

\* C24, amended: with remove_page_numbers and remove_headers_footers both off
\* and no extra patterns the header and footer stage removes exactly the date
\* lines and the table-continuation lines; every other line (blank lines,
\* page numbers, standard designations) is kept, in order
C24_TogglesOffRemovesOnlyDatesAndTableContinuations ==
    StageWithTogglesOff =>
        /\ ret.status = "ok"
        /\ ret.val = SelectSeq(arg, LAMBDA ln : ~DateOrTableContinuation(ln))

\* the stage ran with both toggles off on lines that hold a date line or a
\* table-continuation line next to a page number or a standard designation,
\* and it kept the latter
C24_Witness ==
    /\ StageWithTogglesOff
    /\ ret.status = "ok"
    /\ \E i \in 1..Len(arg) : DateOrTableContinuation(arg[i])
    /\ \E i \in 1..Len(arg) :
           /\ RE_PAGE_NUM_PURE(strip(arg[i])) \/ RE_HEADER_HINT(strip(arg[i]))
           /\ \E j \in 1..Len(ret.val) : ret.val[j] = arg[i]

====
